---- MODULE Spec2Model ----
(***************************************************************************)
(* Model of the chapter path resolver of supergene_classes:                *)
(*   src/chapter.py  _create_subdir, Chapter._generate_filename,           *)
(*                   Chapter._generate_path, generate_paths, chapter_gen   *)
(*   src/main.py     the fetch of a record from the document store         *)
(*   src/create_books_dirs.py  the loop over the book directories          *)
(* Strings are TLA+ strings, a pathlib Path is the sequence of its parts   *)
(* below the filesystem root, the filesystem is a function from the        *)
(* existing directories to their permission bits, and the document store   *)
(* is the set of saved Chapter documents.                                  *)
(***************************************************************************)
EXTENDS Integers, Sequences, FiniteSets, TLC

VARIABLES
    self,   \* the Chapter instance the methods are called on
    db,     \* the `chapter` collection of the document store
    fs,     \* existing directories below the root -> permission bits
    last,   \* what the last call did: arguments, outcome, effects
    calls,  \* the number of calls made so far
    gen,    \* a chapter_gen iterator: start, end, chapter_number
    out,    \* what the last next() on gen did, and how many values it yielded
    task,   \* create_books_dirs.py: the loop variable x and what was made
    pair    \* two _generate_path requests and what each returned

vars == <<self, db, fs, last, calls, gen, out, task, pair>>

---------------------------------------------------------------------------
(* Bounds of the model *)

\* chapter numbers of up to MaxDigits decimal digits are drawn
MaxDigits == 5
\* a behaviour makes at most MaxCalls calls
MaxCalls == 2
\* iterators start up to GenWindow below and above each number that
\* chapter_gen treats specially
GenWindow == 2

---------------------------------------------------------------------------
(* Values of the program *)

\* an unset IntField (Python None)
None == -1

\* Chapter.book = IntField(min_value=1, max_value=10)
MinBook == 1
MaxBook == 10

\* chapter_gen's default end: the last chapter of the archive
LastChapter == 3462

\* chapter_gen.__next__ stops at this chapter number
StopAt == 3462
\* and steps by two from each of these, over the chapter after it
FirstSkip == 3094
SecondSkip == 3116

\* mode argument default of _create_subdir, 0o755
DefaultMode == 493
\* a mode a caller may pass instead, 0o700
OwnerMode == 448
\* the literal mode _create_subdir hands to mkdir, 0o775
MkdirMode == 509
\* Path.mkdir's default mode 0o777, used for the parents it creates
ParentMode == 511
\* create_books_dirs.py makes book directories with 0o755
BookDirMode == 493
\* and their sub-directories with 0o777
SubdirMode == 511

\* the format tags matched by _generate_path
Formats == {"csv", "html", "json", "md", "text"}
\* tags outside the match statement's cases
BadFormats == {"pdf", "txt"}

\* Path.cwd(): an existing directory
CWD == <<"supergene_classes">>

---------------------------------------------------------------------------
(* str(), str.zfill() and pathlib *)

DigitChars == <<"0", "1", "2", "3", "4", "5", "6", "7", "8", "9">>

\* a str() that keeps the last digit alone
str_units(n) == DigitChars[(n % 10) + 1]

RECURSIVE str(_)
\* str(n) of a non-negative int, or of None
str(n) ==
    IF n = None THEN "None"
    ELSE IF n < 10 THEN DigitChars[n + 1]
    ELSE str(n \div 10) \o DigitChars[(n % 10) + 1]

RECURSIVE zfill_short(_, _)
\* zfill that stops one character early
zfill_short(s, width) ==
    IF Len(s) >= width - 1 THEN s ELSE zfill_short("0" \o s, width)

RECURSIVE zfill(_, _)
\* s.zfill(width) of an unsigned string: pad with "0" on the left
zfill(s, width) ==
    IF Len(s) >= width THEN s ELSE zfill("0" \o s, width)

\* parent / name
Join(parent, name) == Append(parent, name)

\* Path.parent
Parent(p) == SubSeq(p, 1, Len(p) - 1)

RECURSIVE PathStr(_)
\* str(path) of an absolute POSIX path
PathStr(p) ==
    IF p = <<>> THEN "" ELSE PathStr(Parent(p)) \o "/" \o p[Len(p)]

\* Path.exists() for the working directory and what lies below it
Exists(f, p) == p = CWD \/ p \in DOMAIN f

---------------------------------------------------------------------------
(* The filesystem and _create_subdir *)

\* no exception: the call returned
NoExc == "none"

\* the directory p now exists, with the permission bits asked of os.mkdir
Put(f, p, mode) ==
    [q \in (DOMAIN f) \cup {p} |-> IF q = p THEN mode ELSE f[q]]

RECURSIVE Mkdir(_, _, _, _, _)
\* Path.mkdir(mode, parents, exist_ok)
Mkdir(f, p, mode, parents, exist_ok) ==
    IF Exists(f, p)
    THEN [fs |-> f, exc |-> IF exist_ok THEN NoExc ELSE "FileExistsError"]
    ELSE IF Exists(f, Parent(p))
    THEN [fs |-> Put(f, p, mode), exc |-> NoExc]
    ELSE IF ~parents
    THEN [fs |-> f, exc |-> "FileNotFoundError"]
    ELSE [fs |-> Put(Mkdir(f, Parent(p), ParentMode, TRUE, TRUE).fs, p, mode),
          exc |-> NoExc]

\* a test that is always true: mkdir runs whether SUB_DIR exists or not
sub_dir_missing_always(f, p) == TRUE

\* `if not SUB_DIR.exists()`
sub_dir_missing(f, p) == ~Exists(f, p)

\* The body of _create_subdir, before its decorator.  log_ok tells whether
\* log.success accepts the panel it is handed after a successful mkdir.
create_subdir_body(f, parent, subdir, mode, parents, exist_ok, log_ok) ==
    IF ~Exists(f, parent)
    THEN [fs |-> f, exc |-> "FileNotFoundError", ret |-> "None"]
    ELSE LET SUB_DIR == Join(parent, subdir) IN
         IF sub_dir_missing(f, SUB_DIR)
         THEN LET m == Mkdir(f, SUB_DIR, MkdirMode, parents, exist_ok) IN
              IF m.exc # NoExc
              THEN \* `raise ose(msg)` calls the caught exception instance
                   [fs |-> m.fs, exc |-> "TypeError", ret |-> "None"]
              ELSE IF ~log_ok
              THEN [fs |-> m.fs, exc |-> "AttributeError", ret |-> "None"]
              ELSE [fs |-> m.fs, exc |-> NoExc,
                    ret |-> IF Exists(m.fs, SUB_DIR) THEN "True" ELSE "False"]
         ELSE [fs |-> f, exc |-> NoExc, ret |-> "True"]

\* @log.catch (loguru, reraise=False): an exception of the decorated
\* function is logged and the call returns None
log_catch(r) ==
    IF r.exc = NoExc
    THEN [fs |-> r.fs, exc |-> NoExc, caught |-> NoExc, ret |-> r.ret]
    ELSE [fs |-> r.fs, exc |-> NoExc, caught |-> r.exc, ret |-> "None"]

\* _create_subdir as its callers see it
create_subdir(f, parent, subdir, mode, parents, exist_ok, log_ok) ==
    log_catch(create_subdir_body(f, parent, subdir, mode, parents, exist_ok, log_ok))

---------------------------------------------------------------------------
(* The Chapter document *)

\* a test for None alone, which lets chapter 0 through
no_chapter_none(d) == d.chapter = None

\* `not self.chapter`
no_chapter(d) == d.chapter = None \/ d.chapter = 0

\* a test that is always true: the filename is generated on every call
no_filename_always(d) == TRUE

\* `not self.filename`
no_filename(d) == d.filename = ""

\* a save that is left out
Save_skip(d, coll) == coll

\* Document.save(): upsert of the document under its unique chapter number
Save(d, coll) == {x \in coll : x.chapter # d.chapter} \cup {d}

\* Chapter.objects(chapter=chapter): the documents with that chapter number
Objects(coll, chapter) == {x \in coll : x.chapter = chapter}

\* Chapter._generate_filename(save); building the message of the exception
\* fails first, so what is raised is an Exception of some class
Chapter_generate_filename(d, coll, save) ==
    IF no_chapter(d)
    THEN [self |-> d, db |-> coll, exc |-> "Exception", ret |-> "", saved |-> FALSE]
    ELSE LET chapter_zfill == zfill(str(d.chapter), 4)
             filename == "chapter-" \o chapter_zfill
             d1 == [d EXCEPT !.filename = filename]
         IN  IF save
             THEN [self |-> d1, db |-> Save(d1, coll), exc |-> NoExc,
                   ret |-> filename, saved |-> TRUE]
             ELSE [self |-> d, db |-> coll, exc |-> NoExc,
                   ret |-> filename, saved |-> FALSE]

\* the format tag used as the extension
Ext_tag(path_type) == path_type

\* the file extension of each case of the match statement
Ext(path_type) ==
    CASE path_type = "csv" -> "csv"
      [] path_type = "html" -> "html"
      [] path_type = "json" -> "json"
      [] path_type = "md" -> "md"
      [] path_type = "text" -> "txt"

\* a match statement whose default case falls back to text
match_case_text(path_type) ==
    IF path_type \in Formats THEN path_type ELSE "text"

\* the case of the match statement that path_type selects
match_case(path_type) ==
    IF path_type \in Formats THEN path_type ELSE "_"

\* the filename read before the lazy generation
path_filename_stale(before, after) == before.filename

\* `filename = self.filename`, read after the lazy generation
path_filename(before, after) == after.filename

\* an assignment that caches the name in the text_path field as well
assign_filename_cached(d, filename) ==
    [d EXCEPT !.filename = filename, !.text_path = filename]

\* `self.filename = ...`: the one field _generate_path assigns
assign_filename(d, filename) == [d EXCEPT !.filename = filename]

\* a directory that exists is left alone: no _create_subdir call is made
NoCreate(f) == [fs |-> f, exc |-> NoExc, caught |-> NoExc, ret |-> "None"]

\* Chapter._generate_path(path_type, path_as_string)
Chapter_generate_path(d, coll, f, path_type, path_as_string, log_ok) ==
    LET g == IF no_filename(d)
             THEN Chapter_generate_filename(d, coll, TRUE)
             ELSE [self |-> d, db |-> coll, exc |-> NoExc, ret |-> d.filename,
                   saved |-> FALSE]
        none == [kind |-> "None", str |-> "", path |-> <<>>]
    IN
    IF g.exc # NoExc
    THEN [self |-> d, db |-> coll, fs |-> f, exc |-> g.exc, saved |-> FALSE,
          ret |-> none]
    ELSE
    LET d1 == assign_filename(g.self, g.ret)
        filename == path_filename(d, d1)
        book_zfill == "book" \o zfill(str(d1.book), 2)
        BOOKS_DIR == Join(CWD, "books")
        c1 == IF ~Exists(f, BOOKS_DIR)
              THEN create_subdir(f, BOOKS_DIR, "books", DefaultMode, TRUE, TRUE, log_ok)
              ELSE NoCreate(f)
        BOOK_DIR == Join(BOOKS_DIR, book_zfill)
        c2 == IF ~Exists(c1.fs, BOOK_DIR)
              THEN create_subdir(c1.fs, BOOKS_DIR, book_zfill, DefaultMode, TRUE, TRUE,
                                 log_ok)
              ELSE NoCreate(c1.fs)
        FMT_DIR == Join(BOOK_DIR, match_case(path_type))
        c3 == IF ~Exists(c2.fs, FMT_DIR)
              THEN create_subdir(c2.fs, BOOK_DIR, match_case(path_type), DefaultMode,
                                 TRUE, TRUE, log_ok)
              ELSE NoCreate(c2.fs)
        path == Join(FMT_DIR, filename \o "." \o Ext(match_case(path_type)))
    IN
    IF c1.exc # NoExc
    THEN [self |-> d1, db |-> g.db, fs |-> c1.fs, exc |-> c1.exc,
          saved |-> g.saved, ret |-> none]
    ELSE IF c2.exc # NoExc
    THEN [self |-> d1, db |-> g.db, fs |-> c2.fs, exc |-> c2.exc,
          saved |-> g.saved, ret |-> none]
    ELSE IF match_case(path_type) = "_"
    THEN [self |-> d1, db |-> g.db, fs |-> c2.fs, exc |-> "OSError",
          saved |-> g.saved, ret |-> none]
    ELSE IF c3.exc # NoExc
    THEN [self |-> d1, db |-> g.db, fs |-> c3.fs, exc |-> c3.exc,
          saved |-> g.saved, ret |-> none]
    ELSE [self |-> d1, db |-> g.db, fs |-> c3.fs, exc |-> NoExc, saved |-> g.saved,
          ret |-> IF path_as_string
                  THEN [kind |-> "str", str |-> PathStr(path), path |-> <<>>]
                  ELSE [kind |-> "Path", str |-> "", path |-> path]]

\* generate_paths writing the padded number without the "chapter-" prefix
generate_paths_bare(coll, chapter) ==
    IF Objects(coll, chapter) = {}
    THEN [db |-> coll, exc |-> "AttributeError", saved |-> FALSE]
    ELSE LET doc == CHOOSE x \in Objects(coll, chapter) : TRUE
             chapter_zfill == zfill(str(doc.chapter), 4)
         IN  IF no_filename(doc)
             THEN [db |-> Save([doc EXCEPT !.filename = chapter_zfill], coll),
                   exc |-> NoExc, saved |-> TRUE]
             ELSE [db |-> coll, exc |-> NoExc, saved |-> FALSE]

\* generate_paths(chapter, path_type); sg() before it only connects, and
\* being under @log.catch raises nothing
generate_paths(coll, chapter) ==
    IF Objects(coll, chapter) = {}
    THEN \* first() is None: `doc.chapter` raises
         [db |-> coll, exc |-> "AttributeError", saved |-> FALSE]
    ELSE LET doc == CHOOSE x \in Objects(coll, chapter) : TRUE
             chapter_zfill == zfill(str(doc.chapter), 4)
         IN  IF no_filename(doc)
             THEN [db |-> Save([doc EXCEPT !.filename = "chapter-" \o chapter_zfill], coll),
                   exc |-> NoExc, saved |-> TRUE]
             ELSE [db |-> coll, exc |-> NoExc, saved |-> FALSE]

---------------------------------------------------------------------------
(* chapter_gen *)

\* chapter_gen(start, end)
chapter_gen(start, end) ==
    [start |-> start, end |-> end, chapter_number |-> start]

\* a __next__ that steps by one from every chapter number
chapter_gen_next_noskip(g) ==
    IF g.chapter_number >= StopAt
    THEN [gen |-> g, exc |-> "StopIteration", ret |-> None]
    ELSE [gen |-> [g EXCEPT !.chapter_number = g.chapter_number + 1],
          exc |-> NoExc, ret |-> g.chapter_number + 1]

\* the stop test of __next__ with == in place of >=
at_end_equal(n) == n = StopAt

\* `self.chapter_number >= 3462`
at_end(n) == n >= StopAt

\* chapter_gen.__next__()
chapter_gen_next(g) ==
    IF at_end(g.chapter_number)
    THEN [gen |-> g, exc |-> "StopIteration", ret |-> None]
    ELSE IF g.chapter_number = FirstSkip
    THEN [gen |-> [g EXCEPT !.chapter_number = g.chapter_number + 2],
          exc |-> NoExc, ret |-> g.chapter_number + 2]
    ELSE IF g.chapter_number = SecondSkip
    THEN [gen |-> [g EXCEPT !.chapter_number = g.chapter_number + 2],
          exc |-> NoExc, ret |-> g.chapter_number + 2]
    ELSE [gen |-> [g EXCEPT !.chapter_number = g.chapter_number + 1],
          exc |-> NoExc, ret |-> g.chapter_number + 1]

\* chapter_gen.__len__()
chapter_gen_len(g) == g.end - g.start + 1

---------------------------------------------------------------------------
(* create_books_dirs.py *)

\* the sub-directories made in every book directory
TaskSubdirs == {"text", "md", "html", "Styles", "Images"}

\* the name the loop gives the directory of its x-th round: enumerate
\* counts from 0, and `book` is that count, x - 1
task_book(x) ==
    IF x < 10 THEN "book" \o zfill(str(x - 1), 2) ELSE "book10"

RECURSIVE MkdirAll(_, _, _)
\* p.mkdir(mode, parents=True, exist_ok=True) for every p of a set
MkdirAll(f, ps, mode) ==
    IF ps = {} THEN f
    ELSE LET p == CHOOSE q \in ps : TRUE
         IN  MkdirAll(Mkdir(f, p, mode, TRUE, TRUE).fs, ps \ {p}, mode)

\* one round of the loop over range(1, 11)
books_loop(f, x) ==
    LET BOOK_DIR == Join(Join(CWD, "books"), task_book(x))
        m == Mkdir(f, BOOK_DIR, BookDirMode, TRUE, TRUE)
    IN  MkdirAll(m.fs, {Join(BOOK_DIR, dir) : dir \in TaskSubdirs}, SubdirMode)

---------------------------------------------------------------------------
(* Initial states *)

RECURSIVE Pow10(_)
Pow10(k) == IF k = 0 THEN 1 ELSE 10 * Pow10(k - 1)

\* the chapter numbers drawn: unset, zero, the last chapter of the archive
\* and the smallest number of each digit count
ChapterNumbers ==
    {None, 0, LastChapter} \cup {Pow10(k) : k \in 0..(MaxDigits - 1)}

\* a filename that was not derived from the chapter number
CustomName == "prologue"

\* a Chapter document: the fields the path resolver reads or could write
Doc(book, chapter, filename) ==
    [book |-> book, chapter |-> chapter, filename |-> filename,
     title |-> "title", csv_path |-> "", html_path |-> "", json_path |-> "",
     md_path |-> "", text_path |-> ""]

BOOKS == Join(CWD, "books")
BookDir(book) == Join(BOOKS, "book" \o zfill(str(book), 2))

\* the records drawn: every book with the first chapter and no filename yet,
\* and every chapter number drawn with the first book, with or without one
Docs ==
    {Doc(b, 1, "") : b \in MinBook..MaxBook} \cup
    {Doc(MinBook, c, n) : c \in ChapterNumbers, n \in {"", CustomName}}

\* the directory trees found before the first call: every directory has
\* its parent, with the permission bits create_books_dirs.py gives them;
\* at most one format directory exists
InitTrees(book) ==
    {<<>>} \cup
    { [p \in {BOOKS} \cup {BookDir(book)} \cup {Join(BookDir(book), t) : t \in S} |->
          IF p = BOOKS THEN ParentMode
          ELSE IF p = BookDir(book) THEN BookDirMode ELSE SubdirMode]
        : S \in {T \in SUBSET Formats : Cardinality(T) <= 1} } \cup
    { [p \in {BOOKS} |-> ParentMode] }

NoCall ==
    [op |-> "init", tag |-> "", parent |-> <<>>, flag |-> FALSE, exc |-> NoExc,
     caught |-> NoExc, kind |-> "None", str |-> "", path |-> <<>>,
     created |-> {}, saved |-> FALSE, repeat |-> FALSE, args |-> {}]

\* no next() was called yet
NoOut == [exc |-> NoExc, ret |-> None, prev |-> None, count |-> 0]

\* no path was returned
NoPath == [kind |-> "None", str |-> "", path |-> <<>>]

\* two requests and what they returned: the records a and b, their format
\* tags, path_as_string, and the number of requests made
Pair(a, b, ta, tb, as_string) ==
    [a |-> a, b |-> b, ta |-> ta, tb |-> tb, as_string |-> as_string,
     ra |-> NoPath, rb |-> NoPath, made |-> 0]

\* no pair of requests is compared
NoPair == Pair(Doc(MinBook, 1, ""), Doc(MinBook, 1, ""), "text", "text", TRUE)

\* the records requests are made for: the first or the last book, a valid
\* chapter number, and no filename or the one derived from the number
PairDocs(named) ==
    {Doc(b, c, IF named THEN "chapter-" \o zfill(str(c), 4) ELSE "")
        : b \in {MinBook, MaxBook}, c \in ChapterNumbers \ {None, 0}}

\* create_books_dirs.py before its loop: x is the first of range(1, 11)
NoTask == [x |-> 1, made |-> {}]

\* the start values drawn: around 1 (the default), around the two numbers
\* stepped from by two, and around the number the iterator stops at
Starts ==
    UNION { (n - GenWindow)..(n + GenWindow) : n \in {FirstSkip, SecondSkip, StopAt} }
        \cup ((1 - GenWindow)..1)

\* the end values drawn: the default, and one below and one above it
Ends == {StopAt - GenWindow, LastChapter, StopAt + GenWindow}

Init ==
    /\ self \in Docs
    /\ db \in {{}} \cup (IF self.chapter = None THEN {} ELSE {{self}})
    /\ fs \in InitTrees(self.book)
    /\ last = NoCall
    /\ calls = 0
    /\ gen = chapter_gen(1, LastChapter)
    /\ out = NoOut
    /\ task = NoTask
    /\ pair = NoPair

\* records start without a filename
InitEmpty == Init /\ self.filename = ""

---------------------------------------------------------------------------
(* Operations *)

\* one more call, while the behaviour has calls left
Call == calls < MaxCalls /\ calls' = calls + 1 /\ UNCHANGED <<gen, out, task, pair>>

\* the call about to be made repeats the last one: the same operation with
\* the same arguments, after the last one returned
Repeats(op, tag, parent, flag) ==
    /\ last.op = op
    /\ last.tag = tag
    /\ last.parent = parent
    /\ last.flag = flag
    /\ last.exc = NoExc

\* the directories a call created
Created(f0, f1) == (DOMAIN f1) \ (DOMAIN f0)

\* self._generate_filename(save)
GenerateFilename ==
    \E save \in BOOLEAN :
      \E r \in {Chapter_generate_filename(self, db, save)} :
        /\ Call
        /\ self' = r.self
        /\ db' = r.db
        /\ fs' = fs
        /\ last' = [NoCall EXCEPT !.op = "_generate_filename", !.flag = save,
                                  !.repeat = Repeats("_generate_filename", "", <<>>, save),
                                  !.exc = r.exc,
                                  !.kind = IF r.exc = NoExc THEN "str" ELSE "None",
                                  !.str = r.ret, !.saved = r.saved]

\* self._generate_path(path_type, path_as_string)
GeneratePath ==
    \E path_type \in Formats \cup BadFormats, path_as_string \in BOOLEAN,
       log_ok \in BOOLEAN :
      \E r \in {Chapter_generate_path(self, db, fs, path_type, path_as_string, log_ok)} :
        /\ Call
        /\ self' = r.self
        /\ db' = r.db
        /\ fs' = r.fs
        /\ last' = [NoCall EXCEPT !.op = "_generate_path", !.tag = path_type,
                                  !.flag = path_as_string, !.exc = r.exc,
                                  !.repeat = Repeats("_generate_path", path_type, <<>>,
                                                     path_as_string),
                                  !.kind = r.ret.kind, !.str = r.ret.str,
                                  !.path = r.ret.path,
                                  !.created = Created(fs, r.fs), !.saved = r.saved]

\* generate_paths(chapter) for the record's chapter number
GeneratePaths ==
    \E r \in {generate_paths(db, self.chapter)} :
        /\ Call
        /\ db' = r.db
        /\ UNCHANGED <<self, fs>>
        /\ last' = [NoCall EXCEPT !.op = "generate_paths", !.exc = r.exc,
                                  !.repeat = Repeats("generate_paths", "", <<>>, FALSE),
                                  !.saved = r.saved]

\* _create_subdir(parent, subdir, mode, parents, exist_ok), called directly
CreateSubdir ==
    \E parent \in {BOOKS, BookDir(self.book)}, mode \in {DefaultMode},
       parents \in BOOLEAN, exist_ok \in BOOLEAN, log_ok \in BOOLEAN :
      \E subdir \in IF parent = BOOKS
                    THEN {"book" \o zfill(str(self.book), 2)} ELSE Formats :
      \E r \in {create_subdir(fs, parent, subdir, mode, parents, exist_ok, log_ok)} :
        /\ Call
        /\ fs' = r.fs
        /\ UNCHANGED <<self, db>>
        /\ last' = [NoCall EXCEPT !.op = "_create_subdir", !.tag = subdir,
                                  !.parent = parent, !.exc = r.exc,
                                  !.repeat = Repeats("_create_subdir", subdir, parent, FALSE),
                                  !.caught = r.caught,
                                  !.kind = IF r.ret = "None" THEN "None" ELSE "bool",
                                  !.str = r.ret, !.created = Created(fs, r.fs)]

\* the keyword arguments of a _create_subdir call
Args(mode, parents, exist_ok) ==
    [mode |-> mode, parents |-> parents, exist_ok |-> exist_ok]

\* the defaults of the signature: mode=0o755, parents=True, exist_ok=True
DefaultArgs == Args(DefaultMode, TRUE, TRUE)

\* _create_subdir(parent, subdir, mode, parents, exist_ok), called directly,
\* with the keyword arguments of the call kept in `last`
CreateSubdirArgs ==
    \E parent \in {BOOKS, BookDir(self.book)}, mode \in {DefaultMode, OwnerMode},
       parents \in BOOLEAN, exist_ok \in BOOLEAN, log_ok \in BOOLEAN :
      \E subdir \in IF parent = BOOKS
                    THEN {"book" \o zfill(str(self.book), 2)} ELSE Formats :
      \E r \in {create_subdir(fs, parent, subdir, mode, parents, exist_ok, log_ok)} :
        /\ Call
        /\ fs' = r.fs
        /\ UNCHANGED <<self, db>>
        /\ last' = [NoCall EXCEPT !.op = "_create_subdir", !.tag = subdir,
                                  !.parent = parent, !.exc = r.exc,
                                  !.args = {Args(mode, parents, exist_ok)},
                                  !.repeat = /\ Repeats("_create_subdir", subdir, parent,
                                                        FALSE)
                                             /\ last.args = {Args(mode, parents, exist_ok)},
                                  !.caught = r.caught,
                                  !.kind = IF r.ret = "None" THEN "None" ELSE "bool",
                                  !.str = r.ret, !.created = Created(fs, r.fs)]

\* doc = Chapter.objects(chapter=chapter).first(): the record as stored
Fetch ==
    /\ Objects(db, self.chapter) # {}
    /\ Call
    /\ self' = CHOOSE x \in Objects(db, self.chapter) : TRUE
    /\ UNCHANGED <<db, fs>>
    /\ last' = [NoCall EXCEPT !.op = "fetch"]

Next ==
    \/ GenerateFilename
    \/ GeneratePath
    \/ GeneratePaths
    \/ CreateSubdir
    \/ Fetch

Spec == Init /\ [][Next]_vars

SpecEmpty == InitEmpty /\ [][Next]_vars

\* a chapter_gen iterator of any start and end drawn, nothing else
InitGen ==
    /\ self = Doc(MinBook, 1, "")
    /\ db = {}
    /\ fs = <<>>
    /\ last = NoCall
    /\ calls = 0
    /\ gen \in {chapter_gen(s, e) : s \in Starts, e \in Ends}
    /\ out = NoOut
    /\ task = NoTask
    /\ pair = NoPair

\* next(gen), as the for loop of main.py calls it
GenNext ==
    \E r \in {chapter_gen_next(gen)} :
        /\ gen' = r.gen
        /\ out' = [exc |-> r.exc, ret |-> r.ret, prev |-> out.ret,
                   count |-> IF r.exc = NoExc THEN out.count + 1 ELSE out.count]
        /\ UNCHANGED <<self, db, fs, last, calls, task, pair>>

NextGen == GenNext

SpecGen == InitGen /\ [][NextGen]_vars

\* the loop keeps calling next() until it raises
SpecGenLive == SpecGen /\ WF_vars(GenNext)

\* create_books_dirs.py is about to run, on any directory tree drawn
InitDirs ==
    /\ self = Doc(MinBook, 1, "")
    /\ db = {}
    /\ fs \in UNION {InitTrees(b) : b \in MinBook..MaxBook}
    /\ last = NoCall
    /\ calls = 0
    /\ gen = chapter_gen(1, LastChapter)
    /\ out = NoOut
    /\ task = NoTask
    /\ pair = NoPair

\* the next round of the loop of create_books_dirs.py
BooksLoop ==
    /\ task.x <= 10
    /\ fs' = books_loop(fs, task.x)
    /\ task' = [x |-> task.x + 1, made |-> task.made \cup Created(fs, fs')]
    /\ UNCHANGED <<self, db, last, calls, gen, out, pair>>

NextDirs == BooksLoop

SpecDirs == InitDirs /\ [][NextDirs]_vars

\* two requests are about to be made, in a working directory that has its
\* books directory and nothing below it
InitPair ==
    /\ self = Doc(MinBook, 1, "")
    /\ db = {}
    /\ fs = [p \in {BOOKS} |-> ParentMode]
    /\ last = NoCall
    /\ calls = 0
    /\ gen = chapter_gen(1, LastChapter)
    /\ out = NoOut
    /\ task = NoTask
    /\ \E named \in BOOLEAN, as_string \in BOOLEAN :
         pair \in {Pair(a, b, ta, tb, as_string)
                     : a \in PairDocs(named), b \in PairDocs(named),
                       ta \in Formats, tb \in Formats}

\* a._generate_path(ta, path_as_string), the first request
PathA ==
    /\ pair.made = 0
    /\ \E log_ok \in BOOLEAN :
       \E r \in {Chapter_generate_path(pair.a, db, fs, pair.ta, pair.as_string, log_ok)} :
         /\ db' = r.db
         /\ fs' = r.fs
         /\ pair' = [pair EXCEPT !.a = r.self, !.ra = r.ret, !.made = 1]
    /\ UNCHANGED <<self, last, calls, gen, out, task>>

\* b._generate_path(tb, path_as_string), the second request
PathB ==
    /\ pair.made = 1
    /\ \E log_ok \in BOOLEAN :
       \E r \in {Chapter_generate_path(pair.b, db, fs, pair.tb, pair.as_string, log_ok)} :
         /\ db' = r.db
         /\ fs' = r.fs
         /\ pair' = [pair EXCEPT !.b = r.self, !.rb = r.ret, !.made = 2]
    /\ UNCHANGED <<self, last, calls, gen, out, task>>

NextPair == PathA \/ PathB

SpecPair == InitPair /\ [][NextPair]_vars

\* direct _create_subdir calls alone, every keyword argument drawn
NextSubdir == CreateSubdirArgs

\* one record of each book, not stored: _create_subdir reads neither
InitSubdir == Init /\ self.chapter = 1 /\ db = {}

SpecSubdir == InitSubdir /\ [][NextSubdir]_vars

---------------------------------------------------------------------------
(* Notions the properties are stated with *)

\* the number of decimal digits of n
NumDigits(n) ==
    IF n = 0 THEN 1
    ELSE CHOOSE k \in 1..(MaxDigits + 2) : Pow10(k - 1) <= n /\ n < Pow10(k)

RECURSIVE Numeral(_, _)
\* n written with exactly `width` decimal digits, most significant first
Numeral(n, width) ==
    IF width = 0 THEN ""
    ELSE DigitChars[((n \div Pow10(width - 1)) % 10) + 1] \o Numeral(n, width - 1)

\* n zero-padded to `width` digits: its numeral, with zeros in front when
\* it has fewer digits than `width`
ZeroPadded(n, width) ==
    Numeral(n, IF NumDigits(n) > width THEN NumDigits(n) ELSE width)

\* the filename derived from chapter number n
DerivedName(n) == "chapter-" \o ZeroPadded(n, 4)

\* the export path of a book, format tag and filename, as a string and as
\* the parts of a Path
ExtOf(tag) == IF tag = "text" THEN "txt" ELSE tag

ExportStr(book, tag, filename) ==
    "/supergene_classes/books/book" \o ZeroPadded(book, 2) \o "/" \o tag \o "/"
        \o filename \o "." \o ExtOf(tag)

ExportParts(book, tag, filename) ==
    <<"supergene_classes", "books", "book" \o ZeroPadded(book, 2), tag,
      filename \o "." \o ExtOf(tag)>>

\* the chain of directories of a book and format tag
Chain(book, tag) ==
    { <<"supergene_classes", "books">>,
      <<"supergene_classes", "books", "book" \o ZeroPadded(book, 2)>>,
      <<"supergene_classes", "books", "book" \o ZeroPadded(book, 2), tag>> }

---------------------------------------------------------------------------
(* C1-C3 *)

\* C1: for every valid (positive) chapter number N, _generate_filename
\* returns, without raising, exactly "chapter-" followed by N zero-padded
\* to 4 digits.
C1_FilenameFormat ==
    (last.op = "_generate_filename" /\ self.chapter # None /\ self.chapter > 0)
        => (last.exc = NoExc /\ last.str = DerivedName(self.chapter))

\* _generate_filename has returned the padded name of a two-digit chapter
C1_Witness ==
    /\ last.op = "_generate_filename"
    /\ self.chapter = 10
    /\ last.str = "chapter-0010"

\* C2 (as claimed): after _generate_path returns a path for a valid format
\* tag, books, books/book{BB} and books/book{BB}/{format} all exist,
\* whatever existed before the call.
C2_ChainExists ==
    (last.op = "_generate_path" /\ last.exc = NoExc /\ last.tag \in Formats)
        => Chain(self.book, last.tag) \subseteq DOMAIN fs

\* C3: for each format tag and each book 1..10 the path returned by
\* _generate_path is CWD/books/book{BB}/{tag}/{filename}.{ext}, ext being
\* the tag for csv, html, json, md and "txt" for text.
C3_PathFormat ==
    (last.op = "_generate_path" /\ last.exc = NoExc)
        => /\ last.tag \in Formats
           /\ last.flag => (last.kind = "str" /\
                            last.str = ExportStr(self.book, last.tag, self.filename))
           /\ ~last.flag => (last.kind = "Path" /\
                             last.path = ExportParts(self.book, last.tag, self.filename))

\* the text path of a chapter of book 10 was returned as a string
C3_Witness ==
    /\ last.op = "_generate_path"
    /\ last.tag = "text"
    /\ self.book = 10
    /\ last.str = "/supergene_classes/books/book10/text/chapter-0001.txt"

---------------------------------------------------------------------------
(* C4-C10 *)

\* C4: path resolution is idempotent: a _generate_path call that repeats
\* the call before it (same record, same format tag) returns the same path
\* as that call did and creates no directory.
C4_Idempotent ==
    [][ ( /\ last.op = "_generate_path"
          /\ last.exc = NoExc
          /\ last'.op = "_generate_path"
          /\ last'.tag = last.tag
          /\ last'.flag = last.flag )
        => ( /\ last'.exc = NoExc
             /\ last'.kind = last.kind
             /\ last'.str = last.str
             /\ last'.path = last.path
             /\ last'.created = {} ) ]_vars

\* a _generate_path call was repeated and returned a path again
C4_Witness ==
    /\ last.op = "_generate_path"
    /\ last.repeat
    /\ last.exc = NoExc
    /\ last.kind = "str"
    /\ Chain(self.book, last.tag) \subseteq DOMAIN fs

\* C5: for every path_type outside csv, html, json, md, text,
\* _generate_path raises and returns no path, whatever the record and the
\* filesystem.
C5_UnknownTagRaises ==
    (last.op = "_generate_path" /\ last.tag \notin {"csv", "html", "json", "md", "text"})
        => (last.exc # NoExc /\ last.kind = "None")

\* _generate_path was called with the tag pdf and raised OSError
C5_Witness ==
    /\ last.op = "_generate_path"
    /\ last.tag = "pdf"
    /\ last.exc = "OSError"

\* C6 (as claimed): _create_subdir called with a parent directory that does
\* not exist lets a FileNotFoundError reach its caller, and creates nothing.
C6_MissingParentRaises ==
    (last.op = "_create_subdir" /\ last.parent \notin DOMAIN fs)
        => (last.exc = "FileNotFoundError" /\ last.created = {})

\* C7: _generate_filename raises when the chapter number is absent or zero,
\* and then sets and saves no filename; _generate_path on such a record
\* without a filename raises before any directory is created.
C7_NoChapterAborts ==
    [][ /\ (last'.op = "_generate_filename" /\ self.chapter \in {None, 0})
            => ( /\ last'.exc # NoExc
                 /\ ~last'.saved
                 /\ self' = self
                 /\ db' = db )
        /\ (last'.op = "_generate_path" /\ self.chapter \in {None, 0}
                /\ self.filename = "")
            => ( /\ last'.exc # NoExc
                 /\ last'.kind = "None"
                 /\ last'.created = {}
                 /\ fs' = fs
                 /\ self' = self
                 /\ db' = db ) ]_vars

\* _generate_path was called on a record with chapter 0 and no filename,
\* and raised
C7_Witness ==
    /\ last.op = "_generate_path"
    /\ self.chapter = 0
    /\ self.filename = ""
    /\ last.exc # NoExc

\* C8: the first _generate_path call on a record with an empty filename and
\* a valid chapter number sets the filename to the derived name and saves
\* the record to the store, and a returned path is built from that name; a
\* _generate_path call on a record that has a filename writes nothing to
\* the store.
C8_LazyPersist ==
    [][ /\ (last'.op = "_generate_path" /\ self.filename = ""
                /\ self.chapter \notin {None, 0})
            => ( /\ self'.filename = DerivedName(self.chapter)
                 /\ last'.saved
                 /\ self' \in db'
                 /\ (last'.exc = NoExc /\ last'.flag)
                        => last'.str = ExportStr(self.book, last'.tag,
                                                 DerivedName(self.chapter))
                 /\ (last'.exc = NoExc /\ ~last'.flag)
                        => last'.path = ExportParts(self.book, last'.tag,
                                                    DerivedName(self.chapter)) )
        /\ (last'.op = "_generate_path" /\ self.filename # "")
            => (~last'.saved /\ db' = db) ]_vars

\* _generate_path generated and saved the filename of chapter 3462 and
\* returned its path
C8_Witness ==
    /\ last.op = "_generate_path"
    /\ last.saved
    /\ last.exc = NoExc
    /\ self.filename = "chapter-3462"
    /\ self \in db

\* C9: once a filename is non-empty, no _generate_path call (valid tag or
\* not) and no generate_paths call changes it, on the record or in the
\* store: a step that changes the record's filename is an explicit
\* _generate_filename call that saves.
C9_FilenameStable ==
    [][ /\ (self.filename # "" /\ self'.filename # self.filename)
            => (last'.op = "_generate_filename" /\ last'.flag)
        /\ \A x \in db :
              (x.filename # "" /\ last'.op \in {"_generate_path", "generate_paths"})
                  => \E y \in db' : y.chapter = x.chapter /\ y.filename = x.filename
      ]_vars

\* _generate_path returned for a record whose filename was not derived from
\* its chapter number, and the filename is still that one
C9_Witness ==
    /\ last.op = "_generate_path"
    /\ last.exc = NoExc
    /\ self.filename = CustomName

\* C10: starting from records without a filename, every record's filename,
\* on the instance and in the store, is empty or "chapter-" followed by the
\* record's chapter number zero-padded to 4 digits.
C10_FilenameDerived ==
    \A d \in {self} \cup db :
        d.filename = "" \/ (d.chapter # None /\ d.filename = DerivedName(d.chapter))

\* generate_paths wrote the filename of chapter 100 to the store
C10_Witness ==
    /\ last.op = "generate_paths"
    /\ last.saved
    /\ \E x \in db : x.chapter = 100 /\ x.filename = "chapter-0100"

---------------------------------------------------------------------------
(* C11-C14: _create_subdir and its keyword arguments *)

\* the sub-directory of the last _create_subdir call
SubDir == Join(last.parent, last.tag)

\* C11: _create_subdir is idempotent under its defaults: when parent/subdir
\* already exists the call raises nothing, returns True and leaves the
\* filesystem as it was; and a call that repeats the call before it leaves
\* the filesystem as that call left it.
C11_SubdirIdempotent ==
    [][ /\ ( /\ last'.op = "_create_subdir"
             /\ last'.args = {DefaultArgs}
             /\ Exists(fs, Join(last'.parent, last'.tag)) )
            => ( /\ last'.exc = NoExc
                 /\ last'.caught = NoExc
                 /\ last'.str = "True"
                 /\ last'.created = {}
                 /\ fs' = fs )
        /\ ( /\ last.op = "_create_subdir"
             /\ last'.op = "_create_subdir"
             /\ last.args = {DefaultArgs}
             /\ last'.args = last.args
             /\ last'.tag = last.tag
             /\ last'.parent = last.parent )
            => fs' = fs ]_vars

\* _create_subdir was called twice in a row with its defaults on the same
\* sub-directory, which the first call created, and returned True
C11_Witness ==
    /\ last.op = "_create_subdir"
    /\ last.repeat
    /\ last.args = {DefaultArgs}
    /\ last.str = "True"
    /\ last.created = {}
    /\ fs[SubDir] = MkdirMode

\* C12 (as claimed): after a _create_subdir call with parents=True the
\* parent directory and the sub-directory exist, also when the parent
\* directory was missing before the call.
C12_ParentsGenerated ==
    \A a \in last.args :
        (last.op = "_create_subdir" /\ a.parents)
            => (Exists(fs, last.parent) /\ Exists(fs, SubDir))

\* C13 (as claimed): every directory a _create_subdir call created has the
\* permission bits of the call's mode argument.
C13_ModeGranted ==
    \A a \in last.args :
        last.op = "_create_subdir" => \A p \in last.created : fs[p] = a.mode

\* C14 (as claimed): a _create_subdir call on a sub-directory that existed
\* before it raises when exist_ok is False, and raises nothing and creates
\* nothing when exist_ok is True.
C14_ExistOkFalseThrows ==
    \A a \in last.args :
        (last.op = "_create_subdir" /\ Exists(fs, SubDir) /\ last.created = {})
            => /\ ~a.exist_ok => last.exc # NoExc
               /\ a.exist_ok => (last.exc = NoExc /\ last.caught = NoExc)

---------------------------------------------------------------------------
(* C15, C17: what _generate_path writes *)

\* the fields of a Chapter document other than filename
OtherFields ==
    {"book", "chapter", "title", "csv_path", "html_path", "json_path", "md_path",
     "text_path"}

\* C15: a _generate_path call writes none of the record's csv_path,
\* html_path, json_path, md_path, text_path, book, chapter and title
\* fields, on the instance or on the document it saves: the only field it
\* may change is filename.
C15_OnlyFilenameWritten ==
    [][ last'.op = "_generate_path"
            => /\ \A k \in OtherFields : self'[k] = self[k]
               /\ last'.saved => \A x \in db' \ db :
                                    \A k \in OtherFields : x[k] = self[k] ]_vars

\* _generate_path returned the json path of a chapter of book 10 after
\* setting the filename, and the path fields are as they were created
C15_Witness ==
    /\ last.op = "_generate_path"
    /\ last.exc = NoExc
    /\ last.tag = "json"
    /\ last.saved
    /\ self = Doc(10, 1, "chapter-0001")

\* C17 (as claimed): a _generate_path call with an invalid format tag
\* creates no directory and saves nothing, so that neither the record's
\* filename nor the document store is changed by it.
C17_InvalidTagNoEffect ==
    (last.op = "_generate_path" /\ last.tag \notin Formats)
        => (last.created = {} /\ ~last.saved)

---------------------------------------------------------------------------
(* C16, C18, C19: chapter_gen *)

\* C16: whatever the start value, a chapter_gen iterator never yields 3095
\* or 3117: the value yielded right after 3094 is 3096 and the value
\* yielded right after 3116 is 3118.
C16_SkipsChapters ==
    /\ out.ret \notin {FirstSkip + 1, SecondSkip + 1}
    /\ out.prev = FirstSkip => (out.exc = NoExc /\ out.ret = FirstSkip + 2)
    /\ out.prev = SecondSkip => (out.exc = NoExc /\ out.ret = SecondSkip + 2)

\* an iterator started below 3094 yielded 3094 and then 3096
C16_Witness ==
    /\ gen.start < FirstSkip
    /\ out.prev = FirstSkip
    /\ out.ret = FirstSkip + 2
    /\ out.count > 1

\* C19: whatever the start value, the values that repeated next() calls
\* yield are strictly increasing and never above 3462, and StopIteration
\* is raised after finitely many calls; once it was raised, every later
\* next() raises it again and leaves the iterator as it was.
C19_Terminates ==
    /\ [][ /\ (out'.exc = NoExc /\ out.ret # None) => out'.ret > out.ret
           /\ out'.exc = NoExc => out'.ret <= StopAt
           /\ out.exc = "StopIteration"
                  => (out'.exc = "StopIteration" /\ gen' = gen) ]_vars
    /\ <>(out.exc = "StopIteration")

\* an iterator started at most at 1 yielded every value up to 3462 and
\* then raised StopIteration twice in a row
C19_Witness ==
    /\ gen.start <= 1
    /\ gen.chapter_number = StopAt
    /\ out.exc = "StopIteration"
    /\ out.prev = None
    /\ out.count = StopAt - gen.start - 2

\* C18 (as claimed): a chapter_gen(start, end) iterator yields start
\* first, yields nothing beyond end, and when it raises StopIteration it
\* has yielded end last and as many values as len() of it says.
C18_YieldsStartToEnd ==
    /\ out.count = 1 => out.ret = gen.start
    /\ out.ret # None => out.ret <= gen.end
    /\ (out.exc = "StopIteration" /\ out.prev # None) => out.prev = gen.end
    /\ out.exc = "StopIteration" => out.count = chapter_gen_len(gen)

---------------------------------------------------------------------------
(* C20: create_books_dirs.py *)

\* C20 (as claimed): when the loop of create_books_dirs.py has ended, the
\* directory _generate_path derives for each book 1..10 exists, and every
\* book directory the loop made is one of those.
C20_BookDirsMade ==
    task.x > 10
        => /\ \A b \in MinBook..MaxBook : Exists(fs, BookDir(b))
           /\ \A p \in task.made :
                 Parent(p) = BOOKS => \E b \in MinBook..MaxBook : p = BookDir(b)

---------------------------------------------------------------------------
(* C21: export paths *)

\* C21: export paths never collide: for records whose filename is derived
\* from their chapter number, two _generate_path requests both return a
\* path; the paths differ when the requests differ in chapter number or in
\* format tag, and are the same when the requests agree on chapter number,
\* book and format tag (the working directory being the same).
C21_NoCollision ==
    /\ pair.made >= 1 => pair.ra # NoPath
    /\ pair.made = 2
          => /\ pair.rb # NoPath
             /\ (pair.a.chapter # pair.b.chapter \/ pair.ta # pair.tb)
                    => pair.ra # pair.rb
             /\ ( /\ pair.a.chapter = pair.b.chapter
                  /\ pair.a.book = pair.b.book
                  /\ pair.ta = pair.tb )
                    => pair.ra = pair.rb

\* the md paths of chapters 10 and 100 of book 1 were both requested, for
\* records without a filename, and came back different
C21_Witness ==
    /\ pair.made = 2
    /\ pair.ra.str = "/supergene_classes/books/book01/md/chapter-0010.md"
    /\ pair.rb.str = "/supergene_classes/books/book01/md/chapter-0100.md"
    /\ pair.a \in db
    /\ pair.b \in db

====
